---- MODULE Spec2Model ----
(***************************************************************************)
(* A model of the terminal text editor prototype.  The repository holds    *)
(* two builds of the same program:                                         *)
(*   "tte"  - src/src/tte.cpp                                              *)
(*   "part" - src/unnamed/part_000                                         *)
(* Both run: TERM check, optional file load, a tokenizer pass that prints  *)
(* the buffer with colours, raw terminal mode, and a read/dispatch loop    *)
(* that moves a cursor.  The variable `variant` selects the build; the     *)
(* helper functions that are byte-identical in both files are modelled     *)
(* once.  Bytes are their ASCII codes.                                     *)
(***************************************************************************)
EXTENDS Integers, Sequences, FiniteSets, TLC

(* ------------------------------ bounds --------------------------------- *)
\* longest enumerated file
MaxLen == 2
\* cap on the column counter x where the code lets it grow without limit
MaxCol == 2
\* cap on the offset/row counter y where the code lets it grow without limit
MaxPos == 3
\* cap on the number of recorded tokenizer diagnostics
MaxErr == 2

(* ------------------------------- bytes --------------------------------- *)
NUL == 0
CtrlA == 1
TAB == 9
LF == 10
CR == 13
CtrlQ == 17
ESC == 27
SP == 32
Quote == 34
Amp == 38
LParen == 40
RParen == 41
Star == 42
Comma == 44
Slash == 47
Digit0 == 48
Digit9 == 57
Semicolon == 59
Equals == 61
UpperA == 65
UpperB == 66
UpperC == 67
UpperD == 68
UpperZ == 90
LBracket == 91
Backslash == 92
RBracket == 93
LowerA == 97
LowerZ == 122
LBrace == 123
RBrace == 125
Tilde == 126
DEL == 127

\* sizes of the arrays of main
InputSize == 64
LineBufferSize == 1024

\* input bytes that no line of the source names
Plus == Star + 1
Digit1 == Digit0 + 1
LowerB == LowerA + 1
HighByte == DEL + 1
LowerH == LowerA + 7
LowerI == LowerA + 8
LowerX == LowerA + 23

(* ------------------------------ inputs --------------------------------- *)
\* bytes the enumerated files are built from
FileAlphabet == {Slash, Star, Quote, Backslash, LowerA, Digit1, LF}

BoundedSeqs(S, n) == UNION {[1..k -> S] : k \in 0..n}

\* three lines of lengths 5, 2 and 8
Lines528 ==
  <<LowerA, LowerA, LowerA, LowerA, LowerA, LF,
    LowerA, LowerA, LF,
    LowerA, LowerA, LowerA, LowerA, LowerA, LowerA, LowerA, LowerA>>

\* the file "/* a */b"
BlockExample == <<Slash, Star, SP, LowerA, SP, Star, Slash, LowerB>>

\* the file "// hi\nx=1;"
LineExample ==
  <<Slash, Slash, SP, LowerH, LowerI, LF, LowerX, Equals, Digit1, Semicolon>>

\* a line comment closed by a carriage return: "//a\rb"
ReturnExample == <<Slash, Slash, LowerA, CR, LowerB>>

\* a string literal that holds an escaped quote: "\""a
EscapeExample == <<Quote, Backslash, Quote, Quote, LowerA>>

\* longer files: lines of lengths [1,1], [0,2], [2,0], [1,2] and [5,2,8],
\* bytes outside the tokenizer's grammar, comments and string literals
Examples ==
  { <<LowerA, LF, LowerA>>,
    <<LF, LowerA, LowerA>>,
    <<LowerA, LowerA, LF>>,
    <<LowerA, LF, LowerA, LowerA>>,
    Lines528,
    <<Plus>>,
    <<LowerA, Plus, LowerA>>,
    <<Slash, Star, Plus, Star, Slash, LowerA>>,
    BlockExample,
    <<Slash, Star, Slash, LowerA>>,
    <<Slash, Star, Slash, LowerA, Star, Slash>>,
    LineExample,
    ReturnExample,
    <<Slash, Slash, CR, LF, LowerA>>,
    EscapeExample,
    <<Quote, Backslash, Backslash, Quote, LowerA>>,
    <<Quote, LowerA, Quote, Quote, LowerA>> }

\* the files the program may be started on
Files == BoundedSeqs(FileAlphabet, MaxLen) \cup Examples

\* what an uninitialised malloc'ed buffer may hold (part_000, no file)
Garbage == BoundedSeqs({LowerA, LF}, 2)

\* a read that fills input with bytes above 0x7F
LongChunk == [i \in 1..InputSize |-> HighByte]

\* the chunks one read(0, input, 64) may deliver
Chunks ==
  { <<>>,
    <<LowerA>>, <<SP>>, <<Tilde>>,
    <<LF>>, <<DEL>>, <<ESC>>, <<CtrlQ>>, <<CtrlA>>,
    <<ESC, LBracket>>,
    <<ESC, LBracket, UpperA>>, <<ESC, LBracket, UpperB>>,
    <<ESC, LBracket, UpperC>>, <<ESC, LBracket, UpperD>>,
    <<ESC, LBracket, UpperZ>>,
    <<LowerA, LowerA, LowerA>>,
    LongChunk }

TermValues == {"unset", "xterm", "xterm-256color", "dumb"}

\* the terminal: its height, and the widths TIOCGWINSZ may report, one that
\* fits line_buffer and one that does not; the second is enumerated for
\* part_000 on an empty or no file only, as tte.cpp never asks for the size
\* and the footer does not depend on the file
Rows == 6
Columns == 80
Widths == {Columns, LineBufferSize + 1}

(* ------------------------------- state --------------------------------- *)
VARIABLES
  variant,       \* which build runs: "tte" or "part"
  term,          \* value of the TERM environment variable
  argc,          \* 1: no file argument, 2: one file argument
  file,          \* contents of the file named on the command line
  width,         \* columns of the terminal, which is not resized during a run
  pc,            \* position of the process in main
  status,        \* exit status of main; -1 while running or when killed
  data,          \* buffer bytes before the terminating/first NUL
  used,          \* Buffer.used (part_000 only)
  p,             \* tokenizer position buffer_p, as an index into the buffer
  spans,         \* token spans written so far: [kind, start, length]
  nerr,          \* "Unable to parse" diagnostics printed
  x,             \* column: x (part_000), buffer_line_pos (tte.cpp)
  y,             \* offset: y (part_000), buffer_pos (tte.cpp)
  keep_running,  \* loop flag
  input,         \* bytes delivered by the last read
  bytes_read,    \* return value of the last read, -2 before any read
  handler,       \* branch of the dispatch the last iteration took
  screen,        \* number of "save screen" escapes written
  restored,      \* number of "restore screen" escapes written
  raw,           \* terminal attributes currently changed by the program
  attr_restored, \* number of times the original attributes were set back
  ub,            \* a read outside the buffer's bytes [0, NUL] has happened
  ws_col,        \* window_size.ws_col of the last TIOCGWINSZ (part_000)
  footer_len,    \* bytes of line_buffer written to the terminal as footer
  overrun,       \* line_buffer has been written outside its 1024 bytes
  trow,          \* terminal cursor row, 0 at the top
  tcol           \* terminal cursor column, 0 at the left

vars == <<variant, term, argc, file, width, pc, status, data, used, p, spans, nerr,
          x, y, keep_running, input, bytes_read, handler, screen, restored,
          raw, attr_restored, ub, ws_col, footer_len, overrun, trow, tcol>>

env == <<variant, term, argc, file, width>>
tok == <<p, spans, nerr>>
cur == <<x, y>>
tty == <<screen, restored, raw, attr_restored>>
rd == <<input, bytes_read, handler>>
scr == <<ws_col, footer_len, overrun, trow, tcol>>

(* ------------------------- buffer and helpers -------------------------- *)
\* the byte at index i (0-based) of a NUL-terminated byte sequence
ByteAt(d, i) == IF i < Len(d) THEN d[i + 1] ELSE NUL

At(i) == ByteAt(data, i)

is_latin(c) ==
  (c >= UpperA /\ c <= UpperZ) \/ (c >= LowerA /\ c <= LowerZ)

is_digit(c) == c >= Digit0 /\ c <= Digit9

IsSpace(c) == c = SP \/ c = LF \/ c = CR \/ c = TAB

IsPunct(c) ==
  c \in {LParen, RParen, LBrace, RBrace, LBracket, RBracket,
         Equals, Comma, Semicolon, Star, Amp}

RECURSIVE parse_space(_, _)
parse_space(d, i) ==
  IF IsSpace(ByteAt(d, i)) THEN parse_space(d, i + 1) ELSE i

RECURSIVE parse_block_comment(_, _)
parse_block_comment(d, i) ==
  IF ByteAt(d, i) = NUL THEN i
  ELSE IF ByteAt(d, i) = Star /\ ByteAt(d, i + 1) = Slash THEN i + 2
  ELSE parse_block_comment(d, i + 1)

\* a line comment that only a newline or the end of the buffer closes
RECURSIVE InlineCommentToNewline(_, _)
InlineCommentToNewline(d, i) ==
  IF ByteAt(d, i) # NUL /\ ByteAt(d, i) # LF
  THEN InlineCommentToNewline(d, i + 1) ELSE i

RECURSIVE parse_inline_comment(_, _)
parse_inline_comment(d, i) ==
  IF ByteAt(d, i) # NUL /\ ByteAt(d, i) # LF /\ ByteAt(d, i) # CR
  THEN parse_inline_comment(d, i + 1) ELSE i

\* a string literal that any quote closes, escaped or not
RECURSIVE StringLiteralToQuote(_, _)
StringLiteralToQuote(d, i) ==
  IF ByteAt(d, i) = NUL THEN i
  ELSE IF ByteAt(d, i) = Quote THEN i + 1
  ELSE StringLiteralToQuote(d, i + 1)

RECURSIVE parse_string_literal(_, _)
parse_string_literal(d, i) ==
  IF ByteAt(d, i) = NUL THEN i
  ELSE IF ByteAt(d, i) = Quote /\ ByteAt(d, i - 1) # Backslash THEN i + 1
  ELSE parse_string_literal(d, i + 1)

RECURSIVE parse_identifier(_, _)
parse_identifier(d, i) ==
  IF is_latin(ByteAt(d, i)) THEN parse_identifier(d, i + 1) ELSE i

RECURSIVE parse_num(_, _)
parse_num(d, i) ==
  IF is_digit(ByteAt(d, i)) THEN parse_num(d, i + 1) ELSE i

Span(k, s, e) == [kind |-> k, start |-> s, length |-> e - s]

\* the whitespace written by parse_space from index i, as zero or one span
SpaceSpans(d, i) ==
  IF parse_space(d, i) > i THEN <<Span("Whitespace", i, parse_space(d, i))>>
  ELSE <<>>

\* the branch of the scan loop taken at index i
TokenKind(d, i) ==
  LET c == ByteAt(d, i) IN
  IF c = Slash THEN
       IF ByteAt(d, i + 1) = Star THEN "BlockComment"
       ELSE IF ByteAt(d, i + 1) = Slash THEN "LineComment"
       ELSE "Literal"
  ELSE IF c = Quote THEN "StringLiteral"
  ELSE IF IsPunct(c) THEN "Punctuation"
  ELSE IF is_latin(c) THEN "Identifier"
  ELSE IF is_digit(c) THEN "Number"
  ELSE "Error"

\* where buffer_p stands after that branch, before the trailing parse_space
TokenEnd(d, i) ==
  LET k == TokenKind(d, i) IN
  CASE k = "BlockComment" -> parse_block_comment(d, i)
    [] k = "LineComment" -> parse_inline_comment(d, i)
    [] k = "Literal" -> i + 1
    [] k = "StringLiteral" -> parse_string_literal(d, i + 1)
    [] k = "Punctuation" -> i + 1
    [] k = "Identifier" -> parse_identifier(d, i)
    [] k = "Number" -> parse_num(d, i)
    [] OTHER -> i

(* -------------------------------- Init --------------------------------- *)
Init ==
  /\ variant \in {"tte", "part"}
  /\ term \in TermValues
  /\ argc \in {1, 2}
  /\ file \in Files
  /\ (argc = 1 => file = <<>>)
  /\ width \in Widths
  /\ (variant = "tte" \/ file # <<>> => width = Columns)
  /\ pc = "start"
  /\ status = -1
  /\ data = <<>>
  /\ used = 0
  /\ p = 0
  /\ spans = <<>>
  /\ nerr = 0
  /\ x = 0
  /\ y = 0
  /\ keep_running = 1
  /\ input = <<>>
  /\ bytes_read = -2
  /\ handler = "none"
  /\ screen = 0
  /\ restored = 0
  /\ raw = FALSE
  /\ attr_restored = 0
  /\ ub = FALSE
  /\ ws_col = 0
  /\ footer_len = 0
  /\ overrun = FALSE
  /\ trow = 0
  /\ tcol = 0

(* ------------------------------ startup -------------------------------- *)
\* init(): TERM unset or not xterm/xterm-256color -> main returns 1
InitFail ==
  /\ pc = "start"
  /\ term \notin {"xterm", "xterm-256color"}
  /\ pc' = "exited"
  /\ status' = 1
  /\ UNCHANGED <<env, data, used, tok, cur, keep_running, rd, ub, tty>>
  /\ UNCHANGED scr

InitOk ==
  /\ pc = "start"
  /\ term \in {"xterm", "xterm-256color"}
  /\ pc' = "load"
  /\ UNCHANGED <<env, status, data, used, tok, cur, keep_running, rd, ub, tty>>
  /\ UNCHANGED scr

\* a failed assert: the process is killed by SIGABRT where it stands and
\* returns no exit status of its own
Abort ==
  /\ pc' = "aborted"
  /\ status' = status

\* tte.cpp main, from the malloc to the first parse_space of the scan loop:
\* buffer[0] = 0, the optional file read, the "save screen" escape
tte_Start ==
  /\ pc = "load"
  /\ variant = "tte"
  /\ \E openOk \in BOOLEAN :
       IF argc = 2 /\ ~openOk
       THEN /\ Abort
            /\ UNCHANGED <<data, tok, screen>>
       ELSE /\ data' = (IF argc = 2 THEN file ELSE <<>>)
            /\ screen' = screen + 1
            /\ p' = parse_space(data', 0)
            /\ spans' = SpaceSpans(data', 0)
            /\ nerr' = nerr
            /\ pc' = "scan"
            /\ status' = status
  /\ UNCHANGED <<env, used, cur, keep_running, rd, ub, restored, raw, attr_restored>>
  /\ UNCHANGED scr

\* part_000 main with a file argument: load_file up to the first parse_space
load_file ==
  /\ pc = "load"
  /\ variant = "part"
  /\ argc = 2
  /\ \E openOk \in BOOLEAN :
       IF ~openOk
       THEN /\ Abort
            /\ UNCHANGED <<data, used, tok>>
       ELSE /\ data' = file
            /\ used' = Len(file) + 1
            /\ p' = parse_space(data', 0)
            /\ spans' = SpaceSpans(data', 0)
            /\ nerr' = nerr
            /\ pc' = "scan"
            /\ status' = status
  /\ UNCHANGED <<env, cur, keep_running, rd, ub, tty>>
  /\ UNCHANGED scr

\* part_000 main without a file argument: new_buffer (4096), whose bytes are
\* whatever malloc returned
new_buffer ==
  /\ pc = "load"
  /\ variant = "part"
  /\ argc = 1
  /\ data' \in Garbage
  /\ used' = 0
  /\ pc' = "screen"
  /\ UNCHANGED <<env, status, tok, cur, keep_running, rd, ub, tty>>
  /\ UNCHANGED scr

(* ------------------------------ tokenizer ------------------------------ *)
\* one iteration of the scan loop on a byte one of the branches accepts:
\* the token is written, then the white space after it
ScanToken ==
  /\ pc = "scan"
  /\ At(p) # NUL
  /\ TokenKind(data, p) # "Error"
  /\ LET e == TokenEnd(data, p) IN
       /\ spans' = spans \o <<Span(TokenKind(data, p), p, e)>> \o SpaceSpans(data, e)
       /\ p' = parse_space(data, e)
  /\ UNCHANGED <<env, pc, status, data, used, nerr, cur, keep_running, rd, ub, tty>>
  /\ UNCHANGED scr

\* tte.cpp: a byte no branch accepts: the diagnostic, then return 1
tte_ScanError ==
  /\ pc = "scan"
  /\ variant = "tte"
  /\ At(p) # NUL
  /\ TokenKind(data, p) = "Error"
  /\ nerr' = nerr + 1
  /\ pc' = "exited"
  /\ status' = 1
  /\ UNCHANGED <<env, data, used, p, spans, cur, keep_running, rd, ub, tty>>
  /\ UNCHANGED scr

\* part_000: a byte no branch accepts: the diagnostic, buffer_p is not
\* advanced, parse_space leaves it where it is, and the loop repeats
part_ScanError ==
  /\ pc = "scan"
  /\ variant = "part"
  /\ At(p) # NUL
  /\ TokenKind(data, p) = "Error"
  /\ nerr' = (IF nerr < MaxErr THEN nerr + 1 ELSE nerr)
  /\ p' = parse_space(data, p)
  /\ UNCHANGED <<env, pc, status, data, used, spans, cur, keep_running, rd, ub, tty>>
  /\ UNCHANGED scr

\* tte.cpp: the scan loop ends at the NUL; tcgetattr, tcsetattr (raw mode),
\* cursor to the top left, cursor variables and loop flag initialised
tte_ScanDone ==
  /\ pc = "scan"
  /\ variant = "tte"
  /\ At(p) = NUL
  /\ \E getOk \in BOOLEAN, setOk \in BOOLEAN :
       IF ~getOk \/ ~setOk
       THEN /\ Abort
            /\ UNCHANGED <<raw, cur, keep_running>>
       ELSE /\ raw' = TRUE
            /\ x' = 0
            /\ y' = 0
            /\ keep_running' = 1
            /\ pc' = "loop"
            /\ status' = status
  /\ UNCHANGED <<env, data, used, tok, rd, ub, screen, restored, attr_restored>>
  /\ trow' = 0
  /\ tcol' = 0
  /\ UNCHANGED <<ws_col, footer_len, overrun>>

\* part_000: the scan loop ends at the NUL and load_file returns
part_ScanDone ==
  /\ pc = "scan"
  /\ variant = "part"
  /\ At(p) = NUL
  /\ pc' = "screen"
  /\ UNCHANGED <<env, status, data, used, tok, cur, keep_running, rd, ub, tty>>
  /\ UNCHANGED scr

(* ------------------------------ terminal ------------------------------- *)
\* a cursor coordinate as the terminal keeps it, between 0 and hi
Clamp(v, hi) == IF v < 0 THEN 0 ELSE IF v > hi THEN hi ELSE v

\* decimal digits of a %u or %lu
RECURSIVE Digits(_)
Digits(n) == IF n < 10 THEN 1 ELSE 1 + Digits(n \div 10)

\* characters of numstr for one input byte: "%c" for a printable byte,
\* "\\x%x" for any other; the byte is a char, which above 0x7F is negative
\* as an int and is printed with eight hex digits
NumstrLength(b) ==
  IF b >= SP /\ b <= Tilde THEN 1
  ELSE Len("\\x") + (IF b >= HighByte THEN 8 ELSE IF b < 16 THEN 1 ELSE 2)

RECURSIVE InputLength(_)
InputLength(chunk) ==
  IF chunk = <<>> THEN 0
  ELSE NumstrLength(Head(chunk)) + InputLength(Tail(chunk))

\* strlen (line_buffer) after the sprintf and the strcat calls that follow
\* the read, with cols the width of this iteration's TIOCGWINSZ
StatusLength(cols, chunk) ==
  Len("Size: ") + Digits(cols) + Len("x") + Digits(Rows)
    + Len("; Status: \"") + InputLength(chunk) + Len("\"")

\* the for loop that fills line_buffer with '-' from index len up to cols
\* writes behind the array
FooterOverruns(len, cols) == cols > len /\ cols > LineBufferSize

\* the top of an iteration of part_000's loop, down to the read: the size
\* query, the footer made of the len bytes of status text in line_buffer
\* and the '-' padding, ws_col bytes of it written, and the cursor put at
\* row y + 1, column x + 1; skipped when the loop or the process has ended
LoopTop(len) ==
  IF pc' = "loop" /\ keep_running' = 1
  THEN /\ ws_col' = width
       /\ footer_len' = width
       /\ overrun' = (overrun \/ FooterOverruns(len, width))
       /\ trow' = Clamp(y', Rows - 1)
       /\ tcol' = Clamp(x', width - 1)
  ELSE UNCHANGED scr

\* lines the printf calls at the top of tte.cpp's loop write for a chunk:
\* "bytes_read: ..." and one "key: ..." per byte, whose %c is a line feed
\* of its own when the byte is one
DebugLines(chunk) ==
  1 + Len(chunk) + Cardinality({i \in 1..Len(chunk) : chunk[i] = LF})

\* the terminal cursor after an iteration of tte.cpp's loop: the printed
\* lines leave it at the left of a lower row, scrolling at the bottom; the
\* handler's escapes then move it by rows and to column col
tte_Cursor(dr, col) ==
  /\ trow' = Clamp(Clamp(trow + DebugLines(input'), Rows - 1) + dr, Rows - 1)
  /\ tcol' = col
  /\ UNCHANGED <<ws_col, footer_len, overrun>>

\* part_000: init_screen, then main up to the loop
init_screen ==
  /\ pc = "screen"
  /\ variant = "part"
  /\ screen' = screen + 1
  /\ \E getOk \in BOOLEAN, setOk \in BOOLEAN :
       IF ~getOk \/ ~setOk
       THEN /\ Abort
            /\ UNCHANGED <<raw, cur, keep_running>>
       ELSE /\ raw' = TRUE
            /\ x' = 0
            /\ y' = 0
            /\ keep_running' = 1
            /\ pc' = "loop"
            /\ status' = status
  /\ UNCHANGED <<env, data, used, tok, rd, ub, restored, attr_restored>>
  /\ LoopTop(0)

(* --------------------------- cursor movement --------------------------- *)
\* the backward while loop of the UP handler: from index j to the index
\* just after the nearest newline before it, or to 0
RECURSIVE UpScan(_, _)
UpScan(d, j) ==
  IF j > 0 /\ ByteAt(d, j - 1) # LF THEN UpScan(d, j - 1) ELSE j

\* the UP handler on column cx and offset cy, when its subtraction does not
\* wrap and its reads stay inside the buffer
ArrowUp(d, cx, cy) ==
  IF cy - cx # 0
  THEN LET y1 == cy - (cx + 1)
           s == UpScan(d, y1)
           line_len == y1 - s
           nx == IF line_len > cx THEN cx ELSE line_len
       IN [x |-> nx, y |-> IF nx > 0 THEN s + nx ELSE s]
  ELSE [x |-> cx, y |-> cy]

\* the UP handler leaves the buffer: cy - cx is nonzero as a size_t, and
\* either cy -= cx + 1 wraps below zero or the first byte read, at
\* cy - cx - 2, lies beyond the terminating NUL
ArrowUpOutOfBounds(d, cx, cy) ==
  /\ cy - cx # 0
  /\ \/ cy < cx + 1
     \/ (cy - (cx + 1) > 0 /\ cy - (cx + 1) - 1 > Len(d))

\* the first while loop of the DOWN handler: to the next newline or NUL
RECURSIVE DownEol(_, _)
DownEol(d, pos) ==
  IF ByteAt(d, pos) # NUL /\ ByteAt(d, pos) # LF THEN DownEol(d, pos + 1) ELSE pos

\* the for loop of the DOWN handler: walk up to cx bytes into the next line
RECURSIVE DownCol(_, _, _, _)
DownCol(d, cx, cy, line_pos) ==
  IF line_pos < cx
  THEN IF ByteAt(d, cy) = NUL \/ ByteAt(d, cy) = LF
       THEN [x |-> line_pos, y |-> cy]
       ELSE DownCol(d, cx, cy + 1, line_pos + 1)
  ELSE [x |-> cx, y |-> cy]

\* the DOWN handler, when its reads stay inside the buffer
ArrowDown(d, cx, cy) ==
  LET pos == DownEol(d, cy) IN
  IF ByteAt(d, pos) # NUL THEN DownCol(d, cx, pos + 1, 0)
  ELSE [x |-> cx, y |-> cy]

\* the DOWN handler starts reading beyond the terminating NUL
ArrowDownOutOfBounds(d, cy) == cy > Len(d)

\* the RIGHT handler of tte.cpp
ArrowRight(d, cx, cy) ==
  IF ByteAt(d, cy) # NUL /\ ByteAt(d, cy) # LF
  THEN [x |-> cx + 1, y |-> cy + 1]
  ELSE [x |-> cx, y |-> cy]

\* the LEFT handler of tte.cpp
ArrowLeft(cx, cy) ==
  IF cx > 0 THEN [x |-> cx - 1, y |-> cy - 1] ELSE [x |-> cx, y |-> cy]

\* a decoder that takes 'A' for DOWN and 'B' for UP
IsArrowSwapped(chunk, c) ==
  /\ Len(chunk) = 3 /\ chunk[1] = ESC /\ chunk[2] = LBracket
  /\ chunk[3] = (IF c = UpperA THEN UpperB ELSE IF c = UpperB THEN UpperA ELSE c)

\* bytes_read == 3 && input[0] == '\e' && input[1] == '[', case c
IsArrow(chunk, c) ==
  Len(chunk) = 3 /\ chunk[1] = ESC /\ chunk[2] = LBracket /\ chunk[3] = c

\* read (0, input, 64) at the top of a loop iteration delivers chunk
Read(chunk) ==
  /\ pc = "loop"
  /\ keep_running = 1
  /\ input' = chunk
  /\ bytes_read' = Len(chunk)

\* the outcome of a handler whose reads left the buffer: the process is
\* killed, or it goes on with whatever the stray bytes made of x and y
Undefined ==
  /\ ub' = TRUE
  /\ \/ /\ pc' = "crashed"
        /\ status' = 139
        /\ UNCHANGED cur
     \/ /\ x' \in 0..MaxCol
        /\ y' \in 0..MaxPos
        /\ UNCHANGED <<pc, status>>

(* ------------------------- the loop of tte.cpp ------------------------- *)
\* bytes_read == 1: the switch on input[0]; only ESC changes any state,
\* the other cases write to the terminal
tte_Key ==
  /\ variant = "tte"
  /\ \E chunk \in Chunks :
       /\ Len(chunk) = 1
       /\ Read(chunk)
       /\ keep_running' = (IF chunk[1] = ESC THEN 0 ELSE keep_running)
       /\ handler' = (IF chunk[1] = CtrlA THEN "case_1"
                      ELSE IF chunk[1] = ESC THEN "quit"
                      ELSE IF chunk[1] = DEL THEN "backspace"
                      ELSE "default")
  /\ UNCHANGED <<env, pc, status, data, used, tok, cur, ub, tty>>
  /\ tte_Cursor(IF input'[1] = LF THEN 1 ELSE 0,
                IF input'[1] >= SP /\ input'[1] <= Tilde THEN 1 ELSE 0)

tte_ArrowUp ==
  /\ variant = "tte"
  /\ handler' = "up"
  /\ \E chunk \in Chunks :
       /\ IsArrow(chunk, UpperA)
       /\ Read(chunk)
  /\ IF ArrowUpOutOfBounds(data, x, y)
     THEN Undefined
     ELSE /\ x' = ArrowUp(data, x, y).x
          /\ y' = ArrowUp(data, x, y).y
          /\ UNCHANGED <<pc, status, ub>>
  /\ UNCHANGED <<env, data, used, tok, keep_running, tty>>
  /\ tte_Cursor(IF y # x THEN -1 ELSE 0, IF y # x THEN x' ELSE 0)

tte_ArrowDown ==
  /\ variant = "tte"
  /\ handler' = "down"
  /\ \E chunk \in Chunks :
       /\ IsArrow(chunk, UpperB)
       /\ Read(chunk)
  /\ IF ArrowDownOutOfBounds(data, y)
     THEN Undefined
     ELSE /\ x' = ArrowDown(data, x, y).x
          /\ y' = ArrowDown(data, x, y).y
          /\ UNCHANGED <<pc, status, ub>>
  /\ UNCHANGED <<env, data, used, tok, keep_running, tty>>
  /\ LET moved == ByteAt(data, DownEol(data, y)) # NUL
     IN tte_Cursor(IF moved THEN 1 ELSE 0, IF moved THEN x' ELSE 0)

tte_ArrowRight ==
  /\ variant = "tte"
  /\ handler' = "right"
  /\ \E chunk \in Chunks :
       /\ IsArrow(chunk, UpperC)
       /\ Read(chunk)
  /\ IF y > Len(data)
     THEN Undefined
     ELSE /\ x' = ArrowRight(data, x, y).x
          /\ y' = ArrowRight(data, x, y).y
          /\ UNCHANGED <<pc, status, ub>>
  /\ UNCHANGED <<env, data, used, tok, keep_running, tty>>
  /\ tte_Cursor(0, IF x' # x THEN 1 ELSE 0)

tte_ArrowLeft ==
  /\ variant = "tte"
  /\ handler' = "left"
  /\ \E chunk \in Chunks :
       /\ IsArrow(chunk, UpperD)
       /\ Read(chunk)
  /\ x' = ArrowLeft(x, y).x
  /\ y' = ArrowLeft(x, y).y
  /\ UNCHANGED <<env, pc, status, data, used, tok, keep_running, ub, tty>>
  /\ tte_Cursor(0, 0)

\* ESC [ and a third byte other than A, B, C, D: the default case asserts
tte_UnhandledEscape ==
  /\ variant = "tte"
  /\ handler' = "escape_default"
  /\ \E chunk \in Chunks :
       /\ Len(chunk) = 3 /\ chunk[1] = ESC /\ chunk[2] = LBracket
       /\ chunk[3] \notin {UpperA, UpperB, UpperC, UpperD}
       /\ Read(chunk)
  /\ Abort
  /\ UNCHANGED <<env, data, used, tok, cur, keep_running, ub, tty>>
  /\ tte_Cursor(0, 0)

\* any other read result, 0 bytes included: the final else asserts
tte_UnhandledInput ==
  /\ variant = "tte"
  /\ handler' = "unhandled"
  /\ \E chunk \in Chunks :
       /\ Len(chunk) # 1
       /\ ~(Len(chunk) = 3 /\ chunk[1] = ESC /\ chunk[2] = LBracket)
       /\ Read(chunk)
  /\ Abort
  /\ UNCHANGED <<env, data, used, tok, cur, keep_running, ub, tty>>
  /\ tte_Cursor(0, 0)

\* read fails with -1: input is not written, the final else asserts
tte_ReadFail ==
  /\ variant = "tte"
  /\ handler' = "unhandled"
  /\ pc = "loop"
  /\ keep_running = 1
  /\ bytes_read' = -1
  /\ Abort
  /\ UNCHANGED <<env, data, used, tok, cur, keep_running, input, ub, tty>>
  /\ trow' = Clamp(trow + 1, Rows - 1)
  /\ tcol' = 0
  /\ UNCHANGED <<ws_col, footer_len, overrun>>

\* keep_running is 0 at the top of the loop: main returns 0; the restore
\* calls after the loop are commented out
tte_Exit ==
  /\ variant = "tte"
  /\ pc = "loop"
  /\ keep_running = 0
  /\ pc' = "exited"
  /\ status' = 0
  /\ UNCHANGED <<env, data, used, tok, cur, keep_running, rd, ub, tty>>
  /\ UNCHANGED scr

(* ------------------------ the loop of part_000 ------------------------- *)
\* read fails with -1: assert (bytes_read != -1)
part_ReadFail ==
  /\ variant = "part"
  /\ pc = "loop"
  /\ keep_running = 1
  /\ bytes_read' = -1
  /\ Abort
  /\ UNCHANGED <<env, data, used, tok, cur, keep_running, input, handler, ub,
                 tty>>
  /\ UNCHANGED scr

\* one printable byte: it is echoed and x is incremented
part_Char ==
  /\ variant = "part"
  /\ handler' = "printable"
  /\ x < MaxCol
  /\ \E chunk \in Chunks :
       /\ Len(chunk) = 1
       /\ chunk[1] >= SP /\ chunk[1] <= Tilde
       /\ Read(chunk)
  /\ x' = x + 1
  /\ UNCHANGED <<env, pc, status, data, used, tok, y, keep_running, ub, tty>>
  /\ LoopTop(StatusLength(ws_col, input'))

\* case '\n'
part_Enter ==
  /\ variant = "part"
  /\ handler' = "enter"
  /\ y < MaxPos
  /\ Read(<<LF>>)
  /\ x' = 0
  /\ y' = y + 1
  /\ UNCHANGED <<env, pc, status, data, used, tok, keep_running, ub, tty>>
  /\ LoopTop(StatusLength(ws_col, input'))

\* case 0x7f
part_Backspace ==
  /\ variant = "part"
  /\ handler' = "backspace"
  /\ Read(<<DEL>>)
  /\ IF x > 0 THEN x' = x - 1 /\ y' = y
     ELSE IF y > 0 THEN y' = y - 1 /\ x' = x
     ELSE UNCHANGED cur
  /\ UNCHANGED <<env, pc, status, data, used, tok, keep_running, ub, tty>>
  /\ LoopTop(StatusLength(ws_col, input'))

\* case 'Q' - '@' and case '\e'
part_Quit ==
  /\ variant = "part"
  /\ handler' = "quit"
  /\ \E chunk \in Chunks :
       /\ Len(chunk) = 1
       /\ chunk[1] \in {CtrlQ, ESC}
       /\ Read(chunk)
  /\ keep_running' = 0
  /\ UNCHANGED <<env, pc, status, data, used, tok, cur, ub, tty>>
  /\ LoopTop(StatusLength(ws_col, input'))

\* one byte that is not printable and that the switch has no case for
part_OtherByte ==
  /\ variant = "part"
  /\ handler' = "no_case"
  /\ \E chunk \in Chunks :
       /\ Len(chunk) = 1
       /\ ~(chunk[1] >= SP /\ chunk[1] <= Tilde)
       /\ chunk[1] \notin {LF, DEL, CtrlQ, ESC}
       /\ Read(chunk)
  /\ UNCHANGED <<env, pc, status, data, used, tok, cur, keep_running, ub, tty>>
  /\ LoopTop(StatusLength(ws_col, input'))

part_ArrowUp ==
  /\ variant = "part"
  /\ handler' = "up"
  /\ \E chunk \in Chunks :
       /\ IsArrow(chunk, UpperA)
       /\ Read(chunk)
  /\ IF ArrowUpOutOfBounds(data, x, y)
     THEN Undefined
     ELSE /\ x' = ArrowUp(data, x, y).x
          /\ y' = ArrowUp(data, x, y).y
          /\ UNCHANGED <<pc, status, ub>>
  /\ UNCHANGED <<env, data, used, tok, keep_running, tty>>
  /\ LoopTop(StatusLength(ws_col, input'))

part_ArrowDown ==
  /\ variant = "part"
  /\ handler' = "down"
  /\ \E chunk \in Chunks :
       /\ IsArrow(chunk, UpperB)
       /\ Read(chunk)
  /\ IF ArrowDownOutOfBounds(data, y)
     THEN Undefined
     ELSE /\ x' = ArrowDown(data, x, y).x
          /\ y' = ArrowDown(data, x, y).y
          /\ UNCHANGED <<pc, status, ub>>
  /\ UNCHANGED <<env, data, used, tok, keep_running, tty>>
  /\ LoopTop(StatusLength(ws_col, input'))

\* RIGHT: the test on the buffer byte and y++ are commented out
part_ArrowRight ==
  /\ variant = "part"
  /\ handler' = "right"
  /\ x < MaxCol
  /\ \E chunk \in Chunks :
       /\ IsArrow(chunk, UpperC)
       /\ Read(chunk)
  /\ x' = x + 1
  /\ UNCHANGED <<env, pc, status, data, used, tok, y, keep_running, ub, tty>>
  /\ LoopTop(StatusLength(ws_col, input'))

\* LEFT: --y is commented out
part_ArrowLeft ==
  /\ variant = "part"
  /\ handler' = "left"
  /\ \E chunk \in Chunks :
       /\ IsArrow(chunk, UpperD)
       /\ Read(chunk)
  /\ x' = (IF x > 0 THEN x - 1 ELSE x)
  /\ UNCHANGED <<env, pc, status, data, used, tok, y, keep_running, ub, tty>>
  /\ LoopTop(StatusLength(ws_col, input'))

\* ESC [ and a third byte other than A, B, C, D: the default case asserts
part_UnhandledEscape ==
  /\ variant = "part"
  /\ handler' = "escape_default"
  /\ \E chunk \in Chunks :
       /\ Len(chunk) = 3 /\ chunk[1] = ESC /\ chunk[2] = LBracket
       /\ chunk[3] \notin {UpperA, UpperB, UpperC, UpperD}
       /\ Read(chunk)
  /\ Abort
  /\ UNCHANGED <<env, data, used, tok, cur, keep_running, ub, tty>>
  /\ LoopTop(StatusLength(ws_col, input'))

\* any other chunk, 0 bytes included: neither branch of the if is taken
part_OtherChunk ==
  /\ variant = "part"
  /\ handler' = "no_branch"
  /\ \E chunk \in Chunks :
       /\ Len(chunk) # 1
       /\ ~(Len(chunk) = 3 /\ chunk[1] = ESC /\ chunk[2] = LBracket)
       /\ Read(chunk)
  /\ UNCHANGED <<env, pc, status, data, used, tok, cur, keep_running, ub, tty>>
  /\ LoopTop(StatusLength(ws_col, input'))

\* what the bytes written behind line_buffer did to main's frame: the
\* process is killed, or it goes on with whatever they made of x and y. The
\* writes happen at the top of an iteration, before its read: the step reads
\* no chunk and runs no handler
part_FooterOverrun ==
  /\ variant = "part"
  /\ pc = "loop"
  /\ keep_running = 1
  /\ overrun
  /\ input' = <<>>
  /\ bytes_read' = -2
  /\ handler' = "none"
  /\ \/ /\ pc' = "crashed"
        /\ status' = 139
        /\ UNCHANGED <<cur, trow, tcol>>
     \/ /\ x' \in 0..MaxCol
        /\ y' \in 0..MaxPos
        /\ trow' = Clamp(y', Rows - 1)
        /\ tcol' = Clamp(x', ws_col - 1)
        /\ UNCHANGED <<pc, status>>
  /\ UNCHANGED <<env, data, used, tok, keep_running, ub, tty, ws_col,
                 footer_len, overrun>>

\* keep_running is 0 at the top of the loop: destroy_screen, then return 0
destroy_screen ==
  /\ variant = "part"
  /\ pc = "loop"
  /\ keep_running = 0
  /\ \E setOk \in BOOLEAN :
       IF ~setOk
       THEN /\ Abort
            /\ UNCHANGED <<raw, attr_restored, restored>>
       ELSE /\ raw' = FALSE
            /\ attr_restored' = attr_restored + 1
            /\ restored' = restored + 1
            /\ pc' = "exited"
            /\ status' = 0
  /\ UNCHANGED <<env, data, used, tok, cur, keep_running, rd, ub, screen>>
  /\ UNCHANGED scr

(* ---------------------------- specification ---------------------------- *)
Next ==
  \/ InitFail
  \/ InitOk
  \/ tte_Start
  \/ load_file
  \/ new_buffer
  \/ ScanToken
  \/ tte_ScanError
  \/ part_ScanError
  \/ tte_ScanDone
  \/ part_ScanDone
  \/ init_screen
  \/ tte_Key
  \/ tte_ArrowUp
  \/ tte_ArrowDown
  \/ tte_ArrowRight
  \/ tte_ArrowLeft
  \/ tte_UnhandledEscape
  \/ tte_UnhandledInput
  \/ tte_ReadFail
  \/ tte_Exit
  \/ part_ReadFail
  \/ part_Char
  \/ part_Enter
  \/ part_Backspace
  \/ part_Quit
  \/ part_OtherByte
  \/ part_ArrowUp
  \/ part_ArrowDown
  \/ part_ArrowRight
  \/ part_ArrowLeft
  \/ part_UnhandledEscape
  \/ part_OtherChunk
  \/ part_FooterOverrun
  \/ destroy_screen

Spec == Init /\ [][Next]_vars

(* ------------------------ vocabulary of the claims --------------------- *)
Min(a, b) == IF a < b THEN a ELSE b

\* the buffer's logical length: the bytes before the terminating NUL; a
\* buffer made by new_buffer holds no bytes yet
BufferLength == IF variant = "part" /\ argc = 1 THEN 0 ELSE Len(data)

\* the buffer's contents, Buffer[0, used)
Text == SubSeq(data, 1, BufferLength)

\* the process has ended, by return or by a signal
Ended == pc \in {"exited", "aborted", "crashed"}

\* the tokenizer pass is over: the process is past the scan loop
ScanOver == pc \notin {"start", "load", "scan"}

\* the step taken is a loop iteration whose read delivered chunk
Iteration(chunk) ==
  /\ pc = "loop"
  /\ keep_running = 1
  /\ bytes_read' = Len(chunk)
  /\ input' = chunk

\* index of the first byte of the line that holds offset j
LineStart(j) ==
  LET nl == {i \in 0..(j - 1) : ByteAt(Text, i) = LF} IN
  IF nl = {} THEN 0 ELSE 1 + CHOOSE i \in nl : \A k \in nl : k <= i

\* index of the newline or buffer end that closes the line holding offset j
LineEnd(j) ==
  IF j >= BufferLength THEN j
  ELSE CHOOSE e \in j..BufferLength :
         /\ (e = BufferLength \/ ByteAt(Text, e) = LF)
         /\ \A k \in j..(e - 1) : ByteAt(Text, k) # LF

OnFirstLine(j) == LineStart(j) = 0

OnLastLine(j) == LineEnd(j) >= BufferLength

\* the spans seen so far tile [0, n): the first starts at 0, each starts
\* where the one before it ends, none is empty, and the last ends at n
Tiles(ss, n) ==
  /\ \A i \in 1..Len(ss) :
       /\ ss[i].length > 0
       /\ ss[i].start = (IF i = 1 THEN 0 ELSE ss[i - 1].start + ss[i - 1].length)
  /\ (IF ss = <<>> THEN 0 ELSE ss[Len(ss)].start + ss[Len(ss)].length) = n

\* a chunk none of the decoder rules 1-5 matches
Unrecognized(chunk) ==
  /\ ~(/\ Len(chunk) = 1
       /\ \/ (chunk[1] >= SP /\ chunk[1] <= Tilde)
          \/ chunk[1] \in {LF, DEL, ESC, CtrlQ})
  /\ ~(/\ Len(chunk) = 3
       /\ chunk[1] = ESC
       /\ chunk[2] = LBracket
       /\ chunk[3] \in {UpperA, UpperB, UpperC, UpperD})

(* -------------------------------- claims ------------------------------- *)

\* C1: once the tokenizer pass over a buffer is over, the spans it wrote, in
\* order, start at index 0, are contiguous without gap or overlap, and end
\* at the buffer's logical end.
C1_TotalCoverage == ScanOver => Tiles(spans, BufferLength)

\* C2: a scan step on a byte that matches no grammar rule writes a one-byte
\* span for it, moves the scan position past it, and stays in the scan loop.
C2_UnmatchedByteSkipped ==
  [][(pc = "scan" /\ At(p) # NUL /\ TokenKind(data, p) = "Error")
       => /\ pc' = "scan"
          /\ p' >= p + 1
          /\ \E i \in 1..Len(spans') :
               i > Len(spans) /\ spans'[i].start = p /\ spans'[i].length = 1]_vars

\* C3: a loop iteration whose chunk no decoder rule matches does not end the
\* process, leaves the buffer and the cursor as they were, and returns to
\* the top of the loop.
C3_UnrecognizedIgnored ==
  [][\A chunk \in Chunks :
       (Iteration(chunk) /\ Unrecognized(chunk))
         => (pc' = "loop" /\ data' = data /\ x' = x /\ y' = y)]_vars

\* C4: when the process has ended after saving the screen or changing the
\* terminal attributes, the screen has been restored exactly once and the
\* attributes have been set back exactly once.
C4_RestoredExactlyOnce ==
  Ended =>
    /\ (screen > 0 => restored = 1)
    /\ ((raw \/ attr_restored > 0) => (~raw /\ attr_restored = 1))

\* C5: in the editor loop the cursor satisfies 0 <= offset <= used, and
\* column = offset - start of the line that holds offset.
C5_CursorInvariant ==
  pc = "loop" =>
    /\ 0 <= y
    /\ y <= BufferLength
    /\ x = y - LineStart(y)

\* C6: an ArrowUp iteration with the cursor not on the first line puts it on
\* the line before, at column min(old column, that line's length); an
\* ArrowDown iteration with the cursor not on the last line puts it on the
\* line after, at column min(old column, that line's length).
C6_VerticalClamp ==
  [][/\ (Iteration(<<ESC, LBracket, UpperA>>) /\ y <= BufferLength /\ ~OnFirstLine(y))
          => LET ps == LineStart(LineStart(y) - 1)
                 plen == LineStart(y) - 1 - ps
             IN /\ pc' = "loop"
                /\ x' = Min(x, plen)
                /\ y' = ps + x'
     /\ (Iteration(<<ESC, LBracket, UpperB>>) /\ ~OnLastLine(y))
          => LET ns == LineEnd(y) + 1
                 nlen == LineEnd(ns) - ns
             IN /\ pc' = "loop"
                /\ x' = Min(x, nlen)
                /\ y' = ns + x']_vars

\* C7: from any cursor the loop can reach on a line that has a line after
\* it, the DOWN handler followed by the UP handler ends on the original line
\* at column min(original column, length of the line below).
C7_DownThenUp ==
  (pc = "loop" /\ ~OnLastLine(y)) =>
    LET d == ArrowDown(data, x, y)
        u == ArrowUp(data, d.x, d.y)
        ns == LineEnd(y) + 1
    IN /\ ~ArrowUpOutOfBounds(data, d.x, d.y)
       /\ u.x = Min(x, LineEnd(ns) - ns)
       /\ u.y = LineStart(y) + u.x

\* C8: an ArrowLeft iteration takes 1 off offset and column when column > 0
\* and changes neither when column = 0; an ArrowRight iteration adds 1 to
\* both when the byte at offset exists and is no newline, and changes
\* neither at the end of a line or of the buffer.
C8_HorizontalStaysOnLine ==
  [][/\ Iteration(<<ESC, LBracket, UpperD>>)
          => IF x > 0 THEN x' = x - 1 /\ y' = y - 1
             ELSE x' = x /\ y' = y
     /\ Iteration(<<ESC, LBracket, UpperC>>)
          => IF y < BufferLength /\ ByteAt(Text, y) # LF
             THEN x' = x + 1 /\ y' = y + 1
             ELSE x' = x /\ y' = y]_vars

\* C9: a Backspace iteration with offset > 0 removes the byte before offset,
\* shifting the rest left, and moves offset back by one; so used Backspaces
\* from the end of the buffer empty it.
C9_BackspaceDeletes ==
  [][(Iteration(<<DEL>>) /\ y > 0 /\ y <= BufferLength)
       => /\ data' = SubSeq(Text, 1, y - 1) \o SubSeq(Text, y + 1, BufferLength)
          /\ y' = y - 1]_vars

\* C10: a Char(byte) iteration inserts the byte at offset: the buffer grows
\* by one, the bytes before offset stay, the bytes from offset on move right
\* by one, and offset and column advance by 1.
C10_CharInserts ==
  [][\A chunk \in Chunks :
       (/\ Iteration(chunk)
        /\ Len(chunk) = 1
        /\ chunk[1] >= SP /\ chunk[1] <= Tilde
        /\ y <= BufferLength)
         => /\ data' = SubSeq(Text, 1, y) \o chunk \o SubSeq(Text, y + 1, BufferLength)
            /\ x' = x + 1
            /\ y' = y + 1]_vars

\* C11: a loop iteration on a one-byte chunk handles the byte as a character
\* (the printable branch of part_000, the echoing default case of tte.cpp)
\* exactly when the byte lies in 0x20..0x7E.
C11_PrintableIsChar ==
  [][\A chunk \in Chunks :
       (Iteration(chunk) /\ Len(chunk) = 1)
         => ((chunk[1] >= SP /\ chunk[1] <= Tilde)
               <=> handler' \in {"printable", "default"})]_vars

\* C12: a loop iteration runs the UP, DOWN, RIGHT or LEFT handler exactly
\* when its chunk is the three bytes ESC '[' and 'A', 'B', 'C' or 'D'
\* respectively, so a chunk of any other length runs none of them; and a
\* handler whose reads stay inside the buffer moves the cursor in its own
\* direction or leaves it: UP never forward, DOWN never back, RIGHT never
\* left, LEFT never right.
C12_ArrowsDecode ==
  [][\A chunk \in Chunks :
       Iteration(chunk) =>
         /\ handler' = "up" <=> chunk = <<ESC, LBracket, UpperA>>
         /\ handler' = "down" <=> chunk = <<ESC, LBracket, UpperB>>
         /\ handler' = "right" <=> chunk = <<ESC, LBracket, UpperC>>
         /\ handler' = "left" <=> chunk = <<ESC, LBracket, UpperD>>
         /\ (handler' = "up" /\ ~ArrowUpOutOfBounds(data, x, y))
              => (y' <= y /\ x' <= x)
         /\ (handler' = "down" /\ ~ArrowDownOutOfBounds(data, y))
              => (y' >= y /\ x' <= x)
         /\ (handler' = "right" /\ y <= Len(data)) => (y' >= y /\ x' >= x)
         /\ handler' = "left" => (y' <= y /\ x' <= x)]_vars

\* an ArrowDown chunk has moved the cursor of tte.cpp off the first line
C12_Witness ==
  /\ variant = "tte"
  /\ pc = "loop"
  /\ input = <<ESC, LBracket, UpperB>>
  /\ handler = "down"
  /\ y > 0

\* C13: a loop iteration on the one-byte chunk ESC or Ctrl-Q clears
\* keep_running and stays in the loop; the step taken from the top of the
\* loop with keep_running cleared reads no input, handles no key, and ends
\* the process with exit status 0.
C13_QuitStopsLoop ==
  [][/\ \A chunk \in {<<ESC>>, <<CtrlQ>>} :
          Iteration(chunk) => (keep_running' = 0 /\ pc' = "loop")
     /\ (pc = "loop" /\ keep_running = 0)
          => /\ UNCHANGED <<input, bytes_read, handler, x, y>>
             /\ pc' = "exited"
             /\ status' = 0]_vars

\* C14: with TERM unset or neither xterm nor xterm-256color, the process,
\* once past its first step, has exited with status 1 having saved no
\* screen, read or set no terminal attribute, loaded no file and read no
\* input; and exit status 1 comes with such a TERM only.
C14_TermPrecondition ==
  /\ (term \notin {"xterm", "xterm-256color"} /\ pc # "start")
       => /\ pc = "exited"
          /\ status = 1
          /\ screen = 0 /\ restored = 0
          /\ ~raw /\ attr_restored = 0
          /\ data = <<>> /\ used = 0
          /\ bytes_read = -2
  /\ status = 1 => term \notin {"xterm", "xterm-256color"}

\* where a block comment opened at index s ends: after the first "*/" that
\* begins at index s + 2 or later, or at the end of the buffer
BlockCommentEnd(d, s) ==
  LET closes == {j \in (s + 2)..(Len(d) - 2) :
                   ByteAt(d, j) = Star /\ ByteAt(d, j + 1) = Slash}
  IN IF closes = {} THEN Len(d)
     ELSE 2 + CHOOSE j \in closes : \A k \in closes : j <= k

\* C15: every BlockComment span starts at a "/*" and ends after the first
\* "*/" that begins behind those two bytes, or at the end of the buffer if
\* there is none; and the finished scan of "/* a */b" has written
\* BlockComment "/* a */", Identifier "b".
C15_BlockCommentSpan ==
  /\ \A i \in 1..Len(spans) :
       spans[i].kind = "BlockComment"
         => /\ ByteAt(data, spans[i].start) = Slash
            /\ ByteAt(data, spans[i].start + 1) = Star
            /\ spans[i].start + spans[i].length
                 = BlockCommentEnd(data, spans[i].start)
  /\ (ScanOver /\ data = BlockExample)
       => spans = <<Span("BlockComment", 0, 7), Span("Identifier", 7, 8)>>

\* where a line comment opened at index s ends: at the first byte of stops
\* behind the two slashes, or at the end of the buffer
LineCommentEnd(d, s, stops) ==
  LET ends == {j \in (s + 2)..Len(d) : j = Len(d) \/ ByteAt(d, j) \in stops}
  IN CHOOSE j \in ends : \A k \in ends : j <= k

\* the span [s, e) is a maximal run of bytes of the set S
MaximalRun(d, s, e, S) ==
  /\ \A j \in s..(e - 1) : ByteAt(d, j) \in S
  /\ s > 0 => ByteAt(d, s - 1) \notin S
  /\ ByteAt(d, e) \notin S

\* every LineComment span starts at "//" and ends before the first byte of
\* stops; Whitespace, Identifier and Number spans are maximal runs,
\* Punctuation spans one byte; "// hi\nx=1;" is split as the example says
LineCommentSpans(stops) ==
  /\ \A i \in 1..Len(spans) :
       LET s == spans[i].start
           e == spans[i].start + spans[i].length
       IN /\ spans[i].kind = "LineComment"
               => /\ ByteAt(data, s) = Slash
                  /\ ByteAt(data, s + 1) = Slash
                  /\ e = LineCommentEnd(data, s, stops)
          /\ spans[i].kind = "Whitespace"
               => MaximalRun(data, s, e, {SP, LF, CR, TAB})
          /\ spans[i].kind = "Identifier"
               => MaximalRun(data, s, e,
                             (UpperA..UpperZ) \cup (LowerA..LowerZ))
          /\ spans[i].kind = "Number"
               => MaximalRun(data, s, e, Digit0..Digit9)
          /\ spans[i].kind = "Punctuation" => e = s + 1
  /\ (ScanOver /\ data = LineExample)
       => spans = <<Span("LineComment", 0, 5), Span("Whitespace", 5, 6),
                    Span("Identifier", 6, 7), Span("Punctuation", 7, 8),
                    Span("Number", 8, 9), Span("Punctuation", 9, 10)>>

\* C16 as stated: a LineComment span runs from "//" up to, not including,
\* the first following newline, or to the end of the buffer; the rest is
\* split into maximal Whitespace, Identifier and Number runs and one-byte
\* Punctuation spans, as in the example "// hi\nx=1;".
C16_LineCommentToNewline == LineCommentSpans({LF})

\* C16 amended: a LineComment span runs from "//" up to, not including,
\* the first following newline or carriage return, or to the end of the
\* buffer; the rest as stated.
C16_LineCommentToLineEnd == LineCommentSpans({LF, CR})

\* the scan of "//a\rb" is over and its comment stopped at the return
C16_Witness ==
  /\ ScanOver
  /\ data = ReturnExample
  /\ Len(spans) = 3
  /\ spans[1] = Span("LineComment", 0, 3)
  /\ spans[2] = Span("Whitespace", 3, 4)

\* where a string literal opened at index s ends: after the first later
\* quote whose preceding byte is no backslash, or at the end of the buffer
StringLiteralEnd(d, s) ==
  LET closes == {j \in (s + 1)..(Len(d) - 1) :
                   ByteAt(d, j) = Quote /\ ByteAt(d, j - 1) # Backslash}
  IN IF closes = {} THEN Len(d)
     ELSE 1 + CHOOSE j \in closes : \A k \in closes : j <= k

\* C17: every StringLiteral span starts at a quote and ends after the first
\* later quote whose preceding byte is not a backslash, or at the end of
\* the buffer if there is none; the two bytes "" are one StringLiteral
\* span, and the quote behind a backslash does not close the literal.
C17_StringLiteralSpan ==
  /\ \A i \in 1..Len(spans) :
       spans[i].kind = "StringLiteral"
         => /\ ByteAt(data, spans[i].start) = Quote
            /\ spans[i].start + spans[i].length
                 = StringLiteralEnd(data, spans[i].start)
  /\ (ScanOver /\ data = <<Quote, Quote>>)
       => spans = <<Span("StringLiteral", 0, 2)>>
  /\ (ScanOver /\ data = EscapeExample)
       => spans = <<Span("StringLiteral", 0, 4), Span("Identifier", 4, 5)>>

\* the scan of "\""a is over: the escaped quote did not close the literal
C17_Witness ==
  /\ ScanOver
  /\ data = EscapeExample
  /\ spans[1] = Span("StringLiteral", 0, 4)

\* C18: an ArrowUp iteration from the first line and an ArrowDown iteration
\* from the last line change neither column nor offset, whatever cursor the
\* keys before have produced; and at every ArrowUp iteration column is at
\* most offset, so that offset - column and offset -= column + 1 do not
\* wrap below zero.
C18_EdgeMovesAreNoOps ==
  [][/\ Iteration(<<ESC, LBracket, UpperA>>)
          => /\ x <= y
             /\ OnFirstLine(y) => (pc' = "loop" /\ x' = x /\ y' = y)
     /\ (Iteration(<<ESC, LBracket, UpperB>>) /\ OnLastLine(y))
          => (pc' = "loop" /\ x' = x /\ y' = y)]_vars

\* C19: no cursor handler has read a buffer index outside [0, L], L the
\* index of the terminating NUL; and while the tokenizer scans, its
\* position and the end of the token it is about to consume lie in [0, L],
\* the look-behind of a string literal starting at index 1 or later.
C19_ReadsInBounds ==
  /\ ~ub
  /\ pc = "scan"
       => /\ p \in 0..Len(data)
          /\ TokenEnd(data, p) <= Len(data)
          /\ parse_space(data, TokenEnd(data, p)) <= Len(data)
          /\ TokenKind(data, p) = "StringLiteral" => p + 1 >= 1

\* C20: a loop iteration whose read returns 0 bytes ends the loop: it does
\* not abort, and it clears keep_running so that no further read follows.
C20_ZeroReadEndsLoop ==
  [][Iteration(<<>>) => (pc' = "loop" /\ keep_running' = 0)]_vars

\* the line of offset j: the number of newlines in the buffer before it
Line(j) ==
  Cardinality({i \in 0..(j - 1) : i < BufferLength /\ ByteAt(Text, i) = LF})

\* a chunk that decodes to a Char, Enter, Backspace or arrow event
EditEvent(chunk) ==
  \/ /\ Len(chunk) = 1
     /\ \/ (chunk[1] >= SP /\ chunk[1] <= Tilde)
        \/ chunk[1] \in {LF, DEL}
  \/ /\ Len(chunk) = 3
     /\ chunk[1] = ESC
     /\ chunk[2] = LBracket
     /\ chunk[3] \in {UpperA, UpperB, UpperC, UpperD}

\* C21: when the loop waits for its first key the terminal cursor is at the
\* (line, column) of the cursor, line being the number of newlines before
\* offset; and a loop iteration on a Char, Enter, Backspace or arrow chunk
\* that starts with the terminal cursor there ends with it at the (line,
\* column) of the new cursor, so that the two agree after any sequence of
\* such events.
C21_TerminalFollowsCursor ==
  [][/\ (pc = "loop" /\ bytes_read = -2) => (trow = Line(y) /\ tcol = x)
     /\ \A chunk \in Chunks :
          (/\ Iteration(chunk)
           /\ EditEvent(chunk)
           /\ trow = Line(y)
           /\ tcol = x
           /\ pc' = "loop")
            => (trow' = Line(y') /\ tcol' = x')]_vars

\* C22: for every width the size query reports and every input chunk of up
\* to 64 bytes, the footer written in an iteration is at most the reported
\* column width, the status text fits the 1024-byte line buffer with its
\* terminator, and the '-' padding up to the width has never written at an
\* index outside the line buffer.
C22_FooterInBounds ==
  /\ footer_len <= ws_col
  /\ \A w \in Widths, chunk \in Chunks :
       Len(chunk) <= InputSize => StatusLength(w, chunk) < LineBufferSize
  /\ ~overrun

====
